---- MODULE Spec2Model ----
(***************************************************************************)
(* The inactivity guard of src/utils/afk-guard.js: ActivityTracker (the    *)
(* two-stage inactivity countdown), SessionManager (lock / unlock and the  *)
(* blanking of sensitive DOM content) and AFKGuard (the coordinator that   *)
(* wires the two through events), driven by the main-process handlers of   *)
(* src/get_top_music.js.                                                   *)
(*                                                                         *)
(* Time is Date.now() in milliseconds.  JavaScript runs every handler to   *)
(* completion, so one action is one handler together with every listener   *)
(* its emit() calls run synchronously.  The only suspension point is the   *)
(* await in SessionManager.unlockSession, which splits that method in two  *)
(* actions.                                                                *)
(***************************************************************************)
EXTENDS Integers, Sequences, FiniteSets, TLC

\* ---------------------------------------------------------------- bounds
\* Horizon of the clock, in ms.
MaxTime == 400
\* unlockSession calls that may be suspended at the await at one time.
MaxPending == 2
\* Entries the backup of an unlocked session may hold when it is locked again (a
\* restore that throws keeps them).
MaxBackup == 3

\* Durations the tracker is configured with (options.timeout, options.warningTime).
Timeouts == {150, 200}
WarningTimes == {100}
UnlockMethods == {"click", "password", "os"}

\* ------------------------------------------------------- program constants
\* handleActivity: "Debounce rapid events (within 100ms)".
DebounceMs == 100
\* The unlock strategy's lockout policy: attemptsBeforeCooldown, cooldownDuration.
AttemptsBeforeCooldown == 5
CooldownDuration == 30000

\* The clock is observed at every deadline and otherwise once per debounce window.
TickMs == DebounceMs

VARIABLES
    now,              \* Date.now()
    hasWindow,        \* typeof window !== 'undefined' in the process running the guard
    dom,              \* the document of that window: its sensitive elements
    activityTracker,  \* AFKGuard.activityTracker: the ActivityTracker's fields
    scheduled,        \* setTimeout callbacks that are outstanding (not fired, not cleared)
    sessionManager,   \* AFKGuard.sessionManager: the SessionManager's fields
    enabled,          \* AFKGuard.enabled
    unlockCalls,      \* unlockSession calls suspended at `await this.validateUnlock`
    history,          \* what an observer of the session manager has counted
    emitted,          \* events emitted by the last handler, in order
    returned,         \* what the last handler returned
    op,               \* the last handler that ran
    app,              \* the renderer's BrassStabsApp: its fields and results containers
    search            \* the renderer's performSecureSearch suspended at its API call

vars == <<now, hasWindow, dom, activityTracker, scheduled, sessionManager, enabled,
          unlockCalls, history, emitted, returned, op, app, search>>

\* ------------------------------------------------------------- utilities
Min(a, b) == IF a < b THEN a ELSE b

\* this.timer / this.warningTimer before the first setTimeout and after stopTracking.
NoTimer == [kind |-> "null", armedAt |-> 0, delay |-> 0]
\* this.lockTime before the first lock.
NoTime == -1
\* history.failedAttempts where the observer keeps no count of failed unlocks.
NotCounted == -1

\* The handle setTimeout returns: which callback, when it was armed, the delay asked for.
Handle(kind, delay) == [kind |-> kind, armedAt |-> now, delay |-> delay]

\* Node runs a timer `delay` ms after setTimeout; a delay below 1 is taken as 1.
FireTime(h) == h.armedAt + (IF h.delay < 1 THEN 1 ELSE h.delay)

Event(src, name, data) == [src |-> src, name |-> name, data |-> data]

\* The state a handler works on: the tracker, the outstanding timers, the session
\* manager, the document, the observer's counts, the events emitted so far, and
\* whether an exception is propagating out of it.
World ==
    [tr |-> activityTracker, sch |-> scheduled, sm |-> sessionManager, dom |-> dom,
     hist |-> history, ev |-> << >>, threw |-> FALSE]

Emit(w, src, name, data) == [w EXCEPT !.ev = Append(@, Event(src, name, data))]

\* clearTimeout(handle): a no-op for a handle that fired or was cleared already.
clearTimeout(w, h) == [w EXCEPT !.sch = @ \ {h}]

\* --------------------------------------------------------- ActivityTracker
\* resetTimer without the clearTimeout calls: the old callbacks stay outstanding.
resetTimer_NoClear(w) ==
    IF ~w.tr.isTracking THEN w
    ELSE LET wt == Handle("warning", w.tr.timeout - w.tr.warningTime)
             mt == Handle("timeout", w.tr.timeout)
         IN  [w EXCEPT !.tr.warningTimer = wt, !.tr.timer = mt,
                       !.sch = @ \cup {wt, mt}]

\* resetTimer clearing the timeout timer only.
resetTimer_KeepsWarning(w) ==
    IF ~w.tr.isTracking THEN w
    ELSE LET w2 == IF w.tr.timer # NoTimer THEN clearTimeout(w, w.tr.timer) ELSE w
             wt == Handle("warning", w2.tr.timeout - w2.tr.warningTime)
             mt == Handle("timeout", w2.tr.timeout)
         IN  [w2 EXCEPT !.tr.warningTimer = wt, !.tr.timer = mt,
                        !.sch = @ \cup {wt, mt}]

\* resetTimer arming the warning warningTime after the timeout instead of before it.
resetTimer_WarningAfter(w) ==
    IF ~w.tr.isTracking THEN w
    ELSE LET w1 == IF w.tr.timer # NoTimer THEN clearTimeout(w, w.tr.timer) ELSE w
             w2 == IF w1.tr.warningTimer # NoTimer
                   THEN clearTimeout(w1, w1.tr.warningTimer) ELSE w1
             wt == Handle("warning", w2.tr.timeout + w2.tr.warningTime)
             mt == Handle("timeout", w2.tr.timeout)
         IN  [w2 EXCEPT !.tr.warningTimer = wt, !.tr.timer = mt,
                        !.sch = @ \cup {wt, mt}]

\* ActivityTracker.resetTimer
resetTimer(w) ==
    IF ~w.tr.isTracking THEN w
    ELSE LET w1 == IF w.tr.timer # NoTimer THEN clearTimeout(w, w.tr.timer) ELSE w
             w2 == IF w1.tr.warningTimer # NoTimer
                   THEN clearTimeout(w1, w1.tr.warningTimer) ELSE w1
             wt == Handle("warning", w2.tr.timeout - w2.tr.warningTime)
             mt == Handle("timeout", w2.tr.timeout)
         IN  [w2 EXCEPT !.tr.warningTimer = wt, !.tr.timer = mt,
                        !.sch = @ \cup {wt, mt}]

\* Object.assign(target, options): options is a function from field names to values.
Assign(target, options) ==
    [f \in DOMAIN target |-> IF f \in DOMAIN options THEN options[f] ELSE target[f]]

\* ActivityTracker.startTracking
startTracking(w, options) ==
    IF ~w.tr.enabled \/ w.tr.isTracking THEN w
    ELSE LET w1 == [w EXCEPT !.tr = Assign(@, options)]
             w2 == [w1 EXCEPT !.tr.isTracking = TRUE, !.tr.lastActivity = now]
         IN  Emit(resetTimer(w2), "tracker", "tracking-started", 0)

\* stopTracking without the clearTimeout calls.
stopTracking_KeepsTimers(w) ==
    IF ~w.tr.isTracking THEN w
    ELSE Emit([w EXCEPT !.tr.isTracking = FALSE, !.tr.timer = NoTimer,
                        !.tr.warningTimer = NoTimer],
              "tracker", "tracking-stopped", 0)

\* ActivityTracker.stopTracking
stopTracking(w) ==
    IF ~w.tr.isTracking THEN w
    ELSE LET w1 == [w EXCEPT !.tr.isTracking = FALSE]
             w2 == IF w1.tr.timer # NoTimer
                   THEN [clearTimeout(w1, w1.tr.timer) EXCEPT !.tr.timer = NoTimer]
                   ELSE w1
             w3 == IF w2.tr.warningTimer # NoTimer
                   THEN [clearTimeout(w2, w2.tr.warningTimer)
                            EXCEPT !.tr.warningTimer = NoTimer]
                   ELSE w2
         IN  Emit(w3, "tracker", "tracking-stopped", 0)

\* AFKGuard.setupEventForwarding: the listener on the tracker's 'activity-detected'.
onActivityDetected(w) == Emit(w, "guard", "activity-detected", now)

\* handleActivity without its call of resetTimer.
handleActivity_NoReset(w) ==
    IF ~w.tr.isTracking THEN w
    ELSE IF now - w.tr.lastActivity < DebounceMs THEN w
    ELSE onActivityDetected(Emit([w EXCEPT !.tr.lastActivity = now],
                                 "tracker", "activity-detected", now))

\* handleActivity without the debounce.
handleActivity_NoDebounce(w) ==
    IF ~w.tr.isTracking THEN w
    ELSE LET w1 == resetTimer([w EXCEPT !.tr.lastActivity = now])
         IN  onActivityDetected(Emit(w1, "tracker", "activity-detected", now))

\* ActivityTracker.handleActivity
handleActivity(w) ==
    IF ~w.tr.isTracking THEN w
    ELSE IF now - w.tr.lastActivity < DebounceMs THEN w
    ELSE LET w1 == resetTimer([w EXCEPT !.tr.lastActivity = now])
         IN  onActivityDetected(Emit(w1, "tracker", "activity-detected", now))

\* ---------------------------------------------------------- SessionManager
\* The document.  Two element slots in document order: "p", a DIV, and "c", a DIV
\* or a password INPUT; with dom.nested, c is a child of p.  An element record holds
\* present (the element is attached to the document), tag, classes and dataSensitive
\* (what the selectors look at), text (a DIV's own text), value (an INPUT's live
\* value), blanked (the class 'afk-sensitive-blanked') and throws (writing the
\* element's value or innerHTML throws).
Slots == <<"p", "c">>

\* blankSensitiveData: const sensitiveSelectors
sensitiveSelectors ==
    <<"[data-sensitive]", ".api-key", ".user-token", ".search-history",
      ".personal-data", "input[type=password]", ".sample-metadata", ".user-profile">>

\* element.matches(selector)
Matches(selector, el) ==
    CASE selector = "[data-sensitive]" -> el.dataSensitive
      [] selector = "input[type=password]" -> el.tag = "INPUT"
      [] OTHER -> selector \in el.classes

\* document.querySelectorAll(selector): the attached matching elements, in document
\* order, as a static list.
querySelectorAll(d, selector) ==
    SelectSeq(Slots, LAMBDA s : d[s].present /\ Matches(selector, d[s]))

\* What innerHTML holds of a child element: its tag and attributes and its text; the
\* live value of an INPUT is a property, not an attribute, and is not serialised.
NoChild == [tag |-> "none", classes |-> {}, dataSensitive |-> FALSE, text |-> "",
            blanked |-> FALSE]
Serialize(el) ==
    [tag |-> el.tag, classes |-> el.classes, dataSensitive |-> el.dataSensitive,
     text |-> el.text, blanked |-> el.blanked]

\* The element the HTML parser builds from a serialised child.
Parse(ch) ==
    [present |-> TRUE, tag |-> ch.tag, classes |-> ch.classes,
     dataSensitive |-> ch.dataSensitive, text |-> ch.text, value |-> "",
     blanked |-> ch.blanked, throws |-> FALSE]

\* element.innerHTML (get)
innerHTML(d, s) ==
    IF d[s].tag = "INPUT" THEN [text |-> "", child |-> NoChild]
    ELSE [text |-> d[s].text,
          child |-> IF s = "p" /\ d.nested /\ d.c.present
                    THEN Serialize(d.c) ELSE NoChild]

\* blankSensitiveData: '<span class="afk-blanked">........</span>' and the INPUT mask
MaskedHTML == [text |-> "<afk-blanked>", child |-> NoChild]
MaskedValue == "********"

\* element.innerHTML = html (set): the element's children are detached and replaced
\* by what the parser builds; backup entries that hold a detached child see its
\* parentNode as null from then on.
setInnerHTML(w, s, html) ==
    IF s = "p" /\ w.dom.nested
    THEN [w EXCEPT !.dom.p.text = html.text,
                   !.dom.c = IF html.child = NoChild
                             THEN [@ EXCEPT !.present = FALSE]
                             ELSE Parse(html.child),
                   !.sm.sensitiveDataBackup =
                       [i \in DOMAIN @ |->
                           IF @[i].slot = "c" THEN [@[i] EXCEPT !.attached = FALSE]
                           ELSE @[i]]]
    ELSE [w EXCEPT !.dom[s].text = html.text]

\* An exception is thrown: the statements that follow, up to the caller that
\* catches it, are skipped.
Throw(w) == [w EXCEPT !.threw = TRUE]

\* blankSensitiveData: the body of elements.forEach.  The key generateElementId
\* builds (time and Math.random) is taken to be fresh, so every visit adds an entry.
\* The backup entry is stored before the element is written.
blankElement(w, s) ==
    LET el == w.dom[s]
        backup == [slot |-> s, attached |-> el.present,
                   originalContent |-> innerHTML(w.dom, s),
                   originalValue |-> el.value]
        w1 == [w EXCEPT !.sm.sensitiveDataBackup = Append(@, backup)]
        w2 == IF el.tag = "INPUT" THEN [w1 EXCEPT !.dom[s].value = MaskedValue]
              ELSE setInnerHTML(w1, s, MaskedHTML)
    IN  IF el.throws THEN Throw(w1) ELSE [w2 EXCEPT !.dom[s].blanked = TRUE]

RECURSIVE blankElements(_, _)
blankElements(w, elements) ==
    IF elements = << >> \/ w.threw THEN w
    ELSE blankElements(blankElement(w, Head(elements)), Tail(elements))

\* blankSensitiveData: sensitiveSelectors.forEach from the i-th selector on
RECURSIVE blankSelectors(_, _)
blankSelectors(w, i) ==
    IF i > Len(sensitiveSelectors) \/ w.threw THEN w
    ELSE blankSelectors(
             blankElements(w, querySelectorAll(w.dom, sensitiveSelectors[i])), i + 1)

\* SessionManager.blankSensitiveData
blankSensitiveData(w) ==
    IF ~hasWindow THEN w
    ELSE LET w1 == blankSelectors(w, 1)
         IN  IF w1.threw THEN w1 ELSE [w1 EXCEPT !.dom.bodyLocked = TRUE]

\* restoreSensitiveData: the body of sensitiveDataBackup.forEach
restoreElement(w, backup) ==
    IF ~backup.attached THEN w
    ELSE LET s == backup.slot
             w1 == IF w.dom[s].tag = "INPUT"
                   THEN [w EXCEPT !.dom[s].value = backup.originalValue]
                   ELSE setInnerHTML(w, s, backup.originalContent)
         IN  IF w.dom[s].throws THEN Throw(w) ELSE [w1 EXCEPT !.dom[s].blanked = FALSE]

\* restoreSensitiveData: sensitiveDataBackup.forEach from the i-th entry on
RECURSIVE restoreElements(_, _)
restoreElements(w, i) ==
    IF i > Len(w.sm.sensitiveDataBackup) \/ w.threw THEN w
    ELSE restoreElements(restoreElement(w, w.sm.sensitiveDataBackup[i]), i + 1)

\* restoreSensitiveData without sensitiveDataBackup.clear().
restoreSensitiveData_KeepsBackup(w) ==
    IF ~hasWindow THEN w
    ELSE LET w1 == restoreElements(w, 1)
         IN  IF w1.threw THEN w1 ELSE [w1 EXCEPT !.dom.bodyLocked = FALSE]

\* SessionManager.restoreSensitiveData
restoreSensitiveData(w) ==
    IF ~hasWindow THEN w
    ELSE LET w1 == restoreElements(w, 1)
         IN  IF w1.threw THEN w1
             ELSE [w1 EXCEPT !.sm.sensitiveDataBackup = << >>,
                             !.dom.bodyLocked = FALSE]

\* The lockout policy's cooldown: attemptsBeforeCooldown failures in a row, the last
\* of them less than cooldownDuration ago (every instant before CooldownDuration is).
InCooldown ==
    history.failedAttempts >= AttemptsBeforeCooldown /\ now < CooldownDuration

\* The observer: a lock period begins, the document as it is before blanking.
ObserveLock(w) == [w EXCEPT !.hist.restores = 0, !.hist.preBlank = w.dom]
\* The observer: restoreSensitiveData is called, and unlockSession reports success.
ObserveUnlock(w) ==
    [w EXCEPT !.hist.restores = @ + 1,
              !.hist.failedAttempts = IF @ = NotCounted THEN @ ELSE 0]
\* The observer: unlockSession reports failure (counted up to AttemptsBeforeCooldown).
ObserveFailure(w) ==
    [w EXCEPT !.hist.failedAttempts =
                  IF @ = NotCounted THEN @ ELSE Min(@ + 1, AttemptsBeforeCooldown)]

\* SessionManager.showLockScreen / hideLockScreen: the overlay's class
\* 'afk-lock-screen-visible'
showLockScreen(w) == IF ~hasWindow THEN w ELSE [w EXCEPT !.dom.lockScreen = TRUE]
hideLockScreen(w) == IF ~hasWindow THEN w ELSE [w EXCEPT !.dom.lockScreen = FALSE]

\* SessionManager.clearMemoryCache (memoryCache is never written to)
clearMemoryCache(w) == Emit(w, "session", "memory-cleared", 0)

\* AFKGuard.setupEventForwarding: the listener on the session manager's 'session-locked'.
onSessionLocked(w, data) == Emit(stopTracking(w), "guard", "session-locked", data)

\* AFKGuard.setupEventForwarding: the listener on 'session-unlocked'.
onSessionUnlocked(w, data) ==
    Emit(IF enabled THEN startTracking(w, << >>) ELSE w, "guard", "session-unlocked", data)

\* AFKGuard.setupEventForwarding: the listener on 'unlock-failed'.
onUnlockFailed(w) == Emit(w, "guard", "unlock-failed", 0)

\* lockSession from the call of clearMemoryCache on.
lockSessionBlanked(w) ==
    onSessionLocked(Emit(showLockScreen(clearMemoryCache(w)),
                         "session", "session-locked", now), now)

\* lockSession without `if (this.isLocked) return`.
lockSession_NoGuard(w) ==
    LET w1 == [ObserveLock(w) EXCEPT !.sm.isLocked = TRUE, !.sm.lockTime = now]
        w2 == blankSensitiveData(w1)
    IN  IF w2.threw THEN w2 ELSE lockSessionBlanked(w2)

\* SessionManager.lockSession
lockSession(w) ==
    IF w.sm.isLocked THEN w
    ELSE LET w1 == [ObserveLock(w) EXCEPT !.sm.isLocked = TRUE, !.sm.lockTime = now]
             w2 == blankSensitiveData(w1)
         IN  IF w2.threw THEN w2 ELSE lockSessionBlanked(w2)

\* What the caller presents: nothing, an object without a password, or a password.
NoCredentials == [given |-> FALSE, hasPassword |-> FALSE, password |-> ""]
Credentials ==
    {NoCredentials,
     [given |-> TRUE, hasPassword |-> FALSE, password |-> ""],
     [given |-> TRUE, hasPassword |-> TRUE, password |-> "default"],
     [given |-> TRUE, hasPassword |-> TRUE, password |-> "guess"]}

\* SessionManager.getStoredPassword with AFK_UNLOCK_PASSWORD unset.
getStoredPassword == "default"

\* SessionManager.validateOSAuth: the placeholder.
validateOSAuth(credentials) == TRUE

\* validateUnlock taking any password for the stored one.
validateUnlock_AnyPassword(method, credentials) ==
    CASE method = "click" -> TRUE
      [] method = "password" -> credentials.given /\ credentials.hasPassword
      [] method = "os" -> validateOSAuth(credentials)
      [] OTHER -> TRUE

\* SessionManager.validateUnlock: the value the returned promise resolves to.
validateUnlock(method, credentials) ==
    CASE method = "click" -> TRUE
      [] method = "password" ->
            /\ credentials.given
            /\ credentials.hasPassword
            /\ credentials.password = getStoredPassword
      [] method = "os" -> validateOSAuth(credentials)
      [] OTHER -> TRUE

\* SessionManager.unlockSession after the await, validation having succeeded.
unlockSucceeded(w) ==
    LET w1 == [ObserveUnlock(w) EXCEPT !.sm.isLocked = FALSE]
        lockDuration == now - w1.sm.lockTime
        w2 == restoreSensitiveData(w1)
    IN  IF w2.threw THEN w2
        ELSE onSessionUnlocked(Emit(hideLockScreen(w2), "session", "session-unlocked",
                                    lockDuration),
                               lockDuration)

\* unlockSession without the `return false` after emitting 'unlock-failed'.
unlockFailed_FallsThrough(w) ==
    LET w1 == onUnlockFailed(Emit(ObserveFailure(w), "session", "unlock-failed", 0))
    IN  [unlockSucceeded([w1 EXCEPT !.ev = << >>]) EXCEPT !.ev = w1.ev \o @]

\* SessionManager.unlockSession after the await, validation having failed.
unlockFailed(w) ==
    onUnlockFailed(Emit(ObserveFailure(w), "session", "unlock-failed", 0))

\* An unlockSession call suspended at the await: validateUnlock has run up to its
\* own first await, so the promise's value is decided by the call's arguments.
\* The observer notes whether the call arrived inside a cooldown, whether it
\* presented the stored password and, where asked to (history.lockTimes), the lock
\* it was made against, by its lockTime.
Suspended(sm, credentials) ==
    [isValid |-> validateUnlock(sm.unlockMethod, credentials),
     cooldown |-> InCooldown,
     correct |-> credentials.hasPassword /\ credentials.password = getStoredPassword,
     lockTime |-> IF history.lockTimes THEN sm.lockTime ELSE NoTime]

\* The sequence s without its i-th element.
Remove(s, i) == SubSeq(s, 1, i - 1) \o SubSeq(s, i + 1, Len(s))

\* The suspended calls with one more.  Any of them may resume next, so their order
\* carries nothing; they are kept with the valid ones first, then those that arrived
\* outside a cooldown, then those with the stored password.
Rank(c) ==
    (IF c.isValid THEN 0 ELSE 4) + (IF c.cooldown THEN 2 ELSE 0)
    + (IF c.correct THEN 0 ELSE 1)
Suspend(calls, c) ==
    LET before == SelectSeq(calls, LAMBDA x : Rank(x) <= Rank(c))
        after == SelectSeq(calls, LAMBDA x : Rank(x) > Rank(c))
    IN  before \o <<c>> \o after

\* --------------------------------------------------------------- AFKGuard
\* The 'inactivity-timeout' listener with its condition inverted.
onInactivityTimeout_Inverted(w) == IF ~enabled THEN lockSession(w) ELSE w

\* AFKGuard.setupEventForwarding: the listener on 'inactivity-timeout'.
onInactivityTimeout(w) == IF enabled THEN lockSession(w) ELSE w

\* AFKGuard.setupEventForwarding: the listener on 'inactivity-warning'.
onInactivityWarning(w, data) == Emit(w, "guard", "inactivity-warning", data)

\* The options AFKGuard.configure is called with, one key at a time: a call with
\* several keys has the effect of the calls with each of them.
NoOptions == [activity |-> << >>, session |-> << >>, setEnabled |-> FALSE, enabled |-> FALSE]
ConfigureOptions ==
    {[NoOptions EXCEPT !.activity = [timeout |-> t]] : t \in Timeouts}
    \cup {[NoOptions EXCEPT !.activity = [warningTime |-> wt]] : wt \in WarningTimes}
    \cup {[NoOptions EXCEPT !.session = [unlockMethod |-> m]] : m \in UnlockMethods}
    \cup {[NoOptions EXCEPT !.setEnabled = TRUE, !.enabled = e] : e \in BOOLEAN}

\* ---------------------------------------------------- preload and renderer
\* The channels src/get_top_music.js registers with ipcMain.handle.
ipcMainHandlers ==
    {"open-external-safe", "user-activity", "afk-lock", "afk-unlock", "afk-status",
     "search-lastfm", "search-local-brass", "search-online-brass", "add-brass-sample",
     "select-brass-file", "open-fiddle", "get-fiddle-templates"}

\* The channels window.api.afkGuard invokes (preload.js).
afkGuardApi ==
    [reportActivity |-> "afk-report-activity",
     checkLockStatus |-> "afk-check-lock-status",
     requestUnlock |-> "afk-request-unlock"]

\* performSecureSearch's search types and the channel window.api invokes for each.
SearchTypes == {"lastfm", "local-brass", "online-brass"}
searchApi(searchType) ==
    CASE searchType = "lastfm" -> "search-lastfm"
      [] searchType = "local-brass" -> "search-local-brass"
      [] searchType = "online-brass" -> "search-online-brass"

\* What ipcRenderer.invoke(channel) does to the guard in the main process: the
\* registered handler runs; a channel without a handler is rejected and nothing runs.
ipcMainHandle(channel, w) ==
    IF channel \notin ipcMainHandlers THEN w
    ELSE CASE channel = "user-activity" -> handleActivity(w)
           [] channel = "afk-lock" -> lockSession(w)
           [] OTHER -> w

\* What createSecureApiWrapper(channel) resolves to, as far as the status checks read
\* it: success, and data.locked of the handler's return value ({success, locked} from
\* 'afk-lock'; the other handlers return no `locked` property).
createSecureApiWrapper(channel) ==
    IF channel \notin ipcMainHandlers THEN [success |-> FALSE, locked |-> "undefined"]
    ELSE [success |-> TRUE,
          locked |-> IF channel = "afk-lock" THEN "true" ELSE "undefined"]

\* BrassStabsApp after its constructor; a results container is "none" while empty.
AppInit ==
    [isSessionLocked |-> FALSE, isLoading |-> FALSE, searchCache |-> {},
     results |-> [t \in SearchTypes |-> "none"],
     sensitiveDataBackup |-> [t \in SearchTypes |-> "none"],
     lockScreen |-> FALSE, locking |-> FALSE, unlocking |-> FALSE]
NoSearch ==
    [searchType |-> "none", channel |-> "none", stage |-> "none", success |-> FALSE]

\* BrassStabsApp.blankSensitiveData, the results containers: a container that shows
\* something is backed up under its id and overwritten.
BrassStabsApp_blankSensitiveData(a) ==
    [a EXCEPT !.sensitiveDataBackup =
                  [t \in SearchTypes |-> IF a.results[t] # "none" THEN a.results[t]
                                         ELSE @[t]],
              !.results = [t \in SearchTypes |-> IF a.results[t] # "none"
                                                 THEN "protected" ELSE "none"]]

\* BrassStabsApp.restoreSensitiveData
BrassStabsApp_restoreSensitiveData(a) ==
    [a EXCEPT !.results = [t \in SearchTypes |->
                              IF a.sensitiveDataBackup[t] # "none"
                              THEN a.sensitiveDataBackup[t] ELSE @[t]],
              !.sensitiveDataBackup = [t \in SearchTypes |-> "none"]]

\* BrassStabsApp.clearMemoryCache
BrassStabsApp_clearMemoryCache(a) == [a EXCEPT !.searchCache = {}]

\* BrassStabsApp.handleSessionLock up to the await inside blankSensitiveData.
handleSessionLock(a) ==
    IF a.isSessionLocked THEN a
    ELSE [BrassStabsApp_blankSensitiveData([a EXCEPT !.isSessionLocked = TRUE])
             EXCEPT !.locking = TRUE]
\* BrassStabsApp.handleSessionLock from that await on.
handleSessionLockResumed(a) ==
    [BrassStabsApp_clearMemoryCache(a) EXCEPT !.lockScreen = TRUE, !.locking = FALSE]

\* BrassStabsApp.handleSessionUnlock up to the await inside restoreSensitiveData.
handleSessionUnlock(a) ==
    IF ~a.isSessionLocked THEN a
    ELSE [BrassStabsApp_restoreSensitiveData(a) EXCEPT !.unlocking = TRUE]
\* BrassStabsApp.handleSessionUnlock from that await on.
handleSessionUnlockResumed(a) ==
    [a EXCEPT !.lockScreen = FALSE, !.isSessionLocked = FALSE, !.unlocking = FALSE]

\* The status checks of setupSessionStateMonitoring and initializeAFKGuard, given
\* what checkLockStatus resolved to.
onLockStatus(a, status) ==
    IF ~status.success THEN a
    ELSE IF status.locked = "true" /\ ~a.isSessionLocked THEN handleSessionLock(a)
    ELSE IF status.locked # "true" /\ a.isSessionLocked THEN handleSessionUnlock(a)
    ELSE a

\* BrassStabsApp.displaySecureResults
displaySecureResults(a, searchType, hasData) ==
    [a EXCEPT !.results[searchType] = IF hasData THEN "results" ELSE "noResults"]

\* BrassStabsApp.performSecureSearch up to `await window.api.search...`: the app
\* and the call left suspended (none when it returned early or from the cache).
performSecureSearch(a, searchType) ==
    IF a.isLoading \/ a.isSessionLocked THEN [app |-> a, search |-> NoSearch]
    ELSE IF searchType \in a.searchCache
    THEN [app |-> displaySecureResults(a, searchType, TRUE), search |-> NoSearch]
    ELSE [app |-> [a EXCEPT !.isLoading = TRUE],
          search |-> [searchType |-> searchType, channel |-> searchApi(searchType),
                      stage |-> "invoked", success |-> FALSE]]

\* BrassStabsApp.performSecureSearch from the await on, with the result s.
performSecureSearchResumed(a, s) ==
    LET a1 == IF s.success
              THEN displaySecureResults(
                       [a EXCEPT !.searchCache = @ \cup {s.searchType}],
                       s.searchType, TRUE)
              ELSE displaySecureResults(a, s.searchType, FALSE)
    IN  [a1 EXCEPT !.isLoading = FALSE]

\* BrassStabsApp.handleSecureSearch with a valid query.
handleSecureSearch(a, searchType) ==
    IF a.isSessionLocked THEN [app |-> a, search |-> NoSearch]
    ELSE performSecureSearch(a, searchType)

\* ------------------------------------------------------------------ Init
TrackerInit(t, wt, en) ==
    [enabled |-> en, timeout |-> t, warningTime |-> wt, isTracking |-> FALSE,
     lastActivity |-> 0, timer |-> NoTimer, warningTimer |-> NoTimer]

SessionInit(m) ==
    [unlockMethod |-> m, isLocked |-> FALSE, lockTime |-> NoTime,
     sensitiveDataBackup |-> << >>]

\* Elements a document is built from.
Absent ==
    [present |-> FALSE, tag |-> "DIV", classes |-> {}, dataSensitive |-> FALSE,
     text |-> "", value |-> "", blanked |-> FALSE, throws |-> FALSE]
Div(classes, ds, text) ==
    [present |-> TRUE, tag |-> "DIV", classes |-> classes, dataSensitive |-> ds,
     text |-> text, value |-> "", blanked |-> FALSE, throws |-> FALSE]
Input(classes, ds, value) ==
    [present |-> TRUE, tag |-> "INPUT", classes |-> classes, dataSensitive |-> ds,
     text |-> "", value |-> value, blanked |-> FALSE, throws |-> FALSE]
\* An element whose value or innerHTML cannot be written: the write throws.
Faulty(el) == [el EXCEPT !.throws = TRUE]
Document(p, c, nested) ==
    [p |-> p, c |-> c, nested |-> nested, bodyLocked |-> FALSE, lockScreen |-> FALSE]

\* The document of a process without a window: none.
NoDocument == Document(Absent, Absent, FALSE)

\* Documents whose elements each match one selector, match two, or are nested.
ParentElements ==
    {Absent} \cup {Div(cl, ds, "A") : cl \in {{".user-profile"}, {".api-key"}},
                                     ds \in BOOLEAN}
ChildElements ==
    {Absent} \cup {Div(cl, FALSE, "B") : cl \in {{".api-key"}, {".sample-metadata"}}}
             \cup {Input(cl, FALSE, "B") : cl \in {{}, {".api-key"}}}
Documents ==
    {Document(p, c, FALSE) : p \in ParentElements, c \in ChildElements}
    \cup {Document(p, c, TRUE) : p \in ParentElements \ {Absent},
                                 c \in ChildElements \ {Absent}}

\* The documents the guard as a whole is run on.
GuardDocuments ==
    {Document(Div({".api-key"}, FALSE, "A"), Input({}, FALSE, "B"), FALSE)}

Init ==
    /\ now = 0
    /\ hasWindow \in BOOLEAN
    /\ IF hasWindow THEN dom \in GuardDocuments ELSE dom = NoDocument
    /\ \E t \in Timeouts, wt \in WarningTimes, en \in BOOLEAN :
          activityTracker = TrackerInit(t, wt, en)
    /\ scheduled = {}
    /\ \E m \in UnlockMethods : sessionManager = SessionInit(m)
    /\ enabled \in BOOLEAN
    /\ unlockCalls = << >>
    /\ history = [restores |-> 0, failedAttempts |-> NotCounted, preBlank |-> dom, lockTimes |-> FALSE]
    /\ emitted = << >>
    /\ returned = "none"
    /\ op = "init"
    /\ app = AppInit
    /\ search = NoSearch

\* --------------------------------------------------------------- actions
\* A handler ran to completion, or to the exception that left it, leaving world w.
CommitGuard(w, name, ret) ==
    /\ activityTracker' = w.tr
    /\ scheduled' = w.sch
    /\ sessionManager' = w.sm
    /\ dom' = w.dom
    /\ history' = w.hist
    /\ emitted' = w.ev
    /\ returned' = IF w.threw THEN "threw" ELSE ret
    /\ op' = name

\* The same for a handler of the main process: the renderer is left alone.
Commit(w, name, ret) ==
    /\ CommitGuard(w, name, ret)
    /\ UNCHANGED <<app, search>>

\* The clock advances while no timer is due, up to the next deadline.
Advance ==
    /\ \A h \in scheduled : FireTime(h) > now
    /\ \E t \in (now + 1)..Min(now + TickMs, MaxTime) :
          /\ \A h \in scheduled : FireTime(h) >= t
          /\ \/ t = Min(now + TickMs, MaxTime)
             \/ \E h \in scheduled : FireTime(h) = t
          /\ now' = t
    /\ Commit(World, "advance", "none")
    /\ UNCHANGED <<hasWindow, enabled, unlockCalls>>

\* AFKGuard.start (get_top_music.js calls it whenever a window has loaded)
Start ==
    /\ IF ~enabled THEN Commit(World, "start", "none")
       ELSE Commit(Emit(startTracking(World, << >>), "guard", "afk-guard-started", 0),
                   "start", "none")
    /\ UNCHANGED <<now, hasWindow, enabled, unlockCalls>>

\* ipcMain 'user-activity' and the tracker's own listeners: handleActivity
HandleActivity ==
    /\ Commit(handleActivity(World), "handleActivity", "none")
    /\ UNCHANGED <<now, hasWindow, enabled, unlockCalls>>

\* A setTimeout callback of resetTimer runs.
TimerFire ==
    \E h \in scheduled :
        /\ FireTime(h) <= now
        /\ LET w == [World EXCEPT !.sch = @ \ {h}]
           IN  IF h.kind = "warning"
               THEN Commit(onInactivityWarning(
                               Emit(w, "tracker", "inactivity-warning",
                                    w.tr.timeout - w.tr.warningTime),
                               w.tr.timeout - w.tr.warningTime),
                           "warningTimer", "none")
               ELSE Commit(onInactivityTimeout(
                               Emit(w, "tracker", "inactivity-timeout", 0)),
                           "timer", "none")
        /\ UNCHANGED <<now, hasWindow, enabled, unlockCalls>>

\* ipcMain 'afk-lock', powerMonitor 'suspend' and 'lock-screen', uncaughtException:
\* sessionManager.lockSession()
LockSession ==
    /\ sessionManager.isLocked \/ Len(sessionManager.sensitiveDataBackup) < MaxBackup
    /\ Commit(lockSession(World), "lockSession", "none")
    /\ UNCHANGED <<now, hasWindow, enabled, unlockCalls>>

\* SessionManager.unlockSession up to `await this.validateUnlock(credentials)`
\* (ipcMain 'afk-unlock', handleUnlockAttempt).
UnlockCall ==
    \E credentials \in Credentials :
        /\ IF ~sessionManager.isLocked
           THEN /\ Commit(World, "unlockSession", "true")
                /\ UNCHANGED unlockCalls
           ELSE /\ Len(unlockCalls) < MaxPending
                /\ unlockCalls' = Suspend(unlockCalls,
                                         Suspended(sessionManager, credentials))
                /\ Commit(World, "unlockSession", "pending")
        /\ UNCHANGED <<now, hasWindow, enabled>>

\* SessionManager.unlockSession from the await on: a suspended call resumes.
UnlockResume ==
    \E i \in 1..Len(unlockCalls) :
        /\ unlockCalls' = Remove(unlockCalls, i)
        /\ IF unlockCalls[i].isValid
           THEN Commit(unlockSucceeded(World), "unlockResume", "true")
           ELSE Commit(unlockFailed(World), "unlockResume", "false")
        /\ UNCHANGED <<now, hasWindow, enabled>>

\* AFKGuard.stop (mainWindow 'closed', app 'before-quit')
Stop ==
    /\ LET w == stopTracking(World)
       IN  IF w.sm.isLocked
           THEN /\ Len(unlockCalls) < MaxPending
                /\ unlockCalls' = Suspend(unlockCalls,
                                         Suspended(sessionManager, NoCredentials))
                /\ Commit(Emit(w, "guard", "afk-guard-stopped", 0), "stop", "none")
           ELSE /\ UNCHANGED unlockCalls
                /\ Commit(Emit(w, "guard", "afk-guard-stopped", 0), "stop", "none")
    /\ UNCHANGED <<now, hasWindow, enabled>>

\* AFKGuard.configure
Configure ==
    \E options \in ConfigureOptions :
        /\ activityTracker' = Assign(activityTracker, options.activity)
        /\ sessionManager' = Assign(sessionManager, options.session)
        /\ enabled' = IF options.setEnabled THEN options.enabled ELSE enabled
        /\ emitted' = << >>
        /\ returned' = "none"
        /\ op' = "configure"
        /\ UNCHANGED <<now, hasWindow, dom, scheduled, unlockCalls, history, app, search>>

\* A handler of the renderer ran: the main process is left alone.
RendererStep(name) ==
    /\ op' = name
    /\ emitted' = << >>
    /\ returned' = "none"
    /\ UNCHANGED <<now, hasWindow, dom, activityTracker, scheduled, sessionManager,
                   enabled, unlockCalls, history>>

\* BrassStabsApp.reportUserActivity (a document event, setupActivityTracking)
ReportUserActivity ==
    /\ IF app.isSessionLocked THEN CommitGuard(World, "reportUserActivity", "none")
       ELSE CommitGuard(ipcMainHandle(afkGuardApi.reportActivity, World),
                        "reportUserActivity", "none")
    /\ UNCHANGED <<now, hasWindow, enabled, unlockCalls, app, search>>

\* The setInterval callbacks of setupSessionStateMonitoring and initializeAFKGuard
PollLockStatus ==
    /\ app' = onLockStatus(app, createSecureApiWrapper(afkGuardApi.checkLockStatus))
    /\ RendererStep("checkLockStatus")
    /\ UNCHANGED search

\* A search form is submitted: handleSecureSearch, which reports the activity and
\* runs performSecureSearch up to its API call.
HandleSecureSearch ==
    \E searchType \in SearchTypes :
        /\ search = NoSearch
        /\ LET r == handleSecureSearch(app, searchType)
           IN  /\ app' = r.app
               /\ search' = r.search
        /\ IF app.isSessionLocked THEN CommitGuard(World, "handleSecureSearch", "none")
           ELSE CommitGuard(ipcMainHandle(afkGuardApi.reportActivity, World),
                            "handleSecureSearch", "none")
        /\ UNCHANGED <<now, hasWindow, enabled, unlockCalls>>

\* ipcMain.handle('search-lastfm' / 'search-local-brass' / 'search-online-brass'):
\* the main process runs the search and replies, or throws.
MainSearch ==
    /\ search.stage = "invoked"
    /\ search.channel \in ipcMainHandlers
    /\ \E success \in BOOLEAN :
          search' = [search EXCEPT !.stage = "replied", !.success = success]
    /\ RendererStep(search.channel)
    /\ UNCHANGED app

\* performSecureSearch resumes with the reply.
SearchResume ==
    /\ search.stage = "replied"
    /\ app' = performSecureSearchResumed(app, search)
    /\ search' = NoSearch
    /\ RendererStep("performSecureSearch")

\* BrassStabsApp.handleSessionLock is called (by a status check that read a lock).
HandleSessionLock ==
    /\ ~app.locking
    /\ app' = handleSessionLock(app)
    /\ RendererStep("handleSessionLock")
    /\ UNCHANGED search
SessionLockResume ==
    /\ app.locking
    /\ app' = handleSessionLockResumed(app)
    /\ RendererStep("handleSessionLockResumed")
    /\ UNCHANGED search

\* BrassStabsApp.handleSessionUnlock is called.
HandleSessionUnlock ==
    /\ ~app.unlocking
    /\ app' = handleSessionUnlock(app)
    /\ RendererStep("handleSessionUnlock")
    /\ UNCHANGED search
SessionUnlockResume ==
    /\ app.unlocking
    /\ app' = handleSessionUnlockResumed(app)
    /\ RendererStep("handleSessionUnlockResumed")
    /\ UNCHANGED search

\* The guard as src/get_top_music.js runs it: that program never calls configure.
Next ==
    \/ Advance
    \/ Start
    \/ HandleActivity
    \/ TimerFire
    \/ LockSession
    \/ UnlockCall
    \/ UnlockResume
    \/ Stop

Spec == Init /\ [][Next]_vars

\* The guard with its settings changed while it runs: constructed with one setting
\* of each kind, in a process without a window, and reconfigured from there.
InitConfigure ==
    /\ now = 0
    /\ hasWindow = FALSE
    /\ dom = NoDocument
    /\ activityTracker = TrackerInit(200, 100, TRUE)
    /\ scheduled = {}
    /\ sessionManager = SessionInit("password")
    /\ enabled = TRUE
    /\ unlockCalls = << >>
    /\ history = [restores |-> 0, failedAttempts |-> NotCounted, preBlank |-> dom, lockTimes |-> FALSE]
    /\ emitted = << >>
    /\ returned = "none"
    /\ op = "init"
    /\ app = AppInit
    /\ search = NoSearch

NextConfigure == Next \/ Configure
SpecConfigure == InitConfigure /\ [][NextConfigure]_vars

\* A SessionManager in a window, over every document, its guard's tracker disabled
\* (options.activity.enabled = false): sequences of lockSession and unlockSession
\* calls as time passes.
InitSession ==
    /\ now = 0
    /\ hasWindow = TRUE
    /\ dom \in Documents
    /\ activityTracker = TrackerInit(200, 100, FALSE)
    /\ scheduled = {}
    /\ \E m \in UnlockMethods : sessionManager = SessionInit(m)
    /\ enabled = TRUE
    /\ unlockCalls = << >>
    /\ history = [restores |-> 0, failedAttempts |-> 0, preBlank |-> dom, lockTimes |-> FALSE]
    /\ emitted = << >>
    /\ returned = "none"
    /\ op = "init"
    /\ app = AppInit
    /\ search = NoSearch

NextSession ==
    \/ Advance
    \/ LockSession
    \/ UnlockCall
    \/ UnlockResume

SpecSession == InitSession /\ [][NextSession]_vars

\* The guard started, and not stopped, through AFKGuard.start(options), its
\* durations unchecked: the
\* constructor's (options.activity or AFK_TIMEOUT_MINUTES / AFK_WARNING_MINUTES) or
\* those of options.activity, which startTracking assigns to the tracker.
UncheckedSettings ==
    {[timeout |-> 200, warningTime |-> 100],
     [timeout |-> 200, warningTime |-> 200],
     [timeout |-> 200, warningTime |-> 300],
     [timeout |-> 0, warningTime |-> 100],
     [timeout |-> -100, warningTime |-> 100]}

StartOptions == {<< >>} \cup UncheckedSettings

\* AFKGuard.start(options)
StartWith ==
    /\ \E options \in StartOptions :
          IF ~enabled THEN Commit(World, "start", "none")
          ELSE Commit(Emit(startTracking(World, options), "guard", "afk-guard-started", 0),
                      "start", "none")
    /\ UNCHANGED <<now, hasWindow, enabled, unlockCalls>>

\* The constructor keeps a negative duration and replaces 0 by the default.
InitStart ==
    /\ now = 0
    /\ hasWindow = FALSE
    /\ dom = NoDocument
    /\ \E st \in UncheckedSettings, en \in BOOLEAN :
          /\ st.timeout # 0
          /\ activityTracker = TrackerInit(st.timeout, st.warningTime, en)
    /\ scheduled = {}
    /\ sessionManager = SessionInit("click")
    /\ enabled \in BOOLEAN
    /\ unlockCalls = << >>
    /\ history = [restores |-> 0, failedAttempts |-> NotCounted, preBlank |-> dom, lockTimes |-> FALSE]
    /\ emitted = << >>
    /\ returned = "none"
    /\ op = "init"
    /\ app = AppInit
    /\ search = NoSearch

NextStart ==
    \/ Advance
    \/ StartWith
    \/ HandleActivity
    \/ TimerFire

SpecStart == InitStart /\ [][NextStart]_vars

\* The guard in a window whose document has, after an element that can be blanked,
\* one that cannot be written.
FaultyDocuments ==
    {Document(Div({".api-key"}, FALSE, "A"), Faulty(Input({}, FALSE, "B")), FALSE),
     Document(Div({".api-key"}, FALSE, "A"), Faulty(Div({".user-profile"}, FALSE, "B")),
              FALSE)}

InitFault ==
    /\ now = 0
    /\ hasWindow = TRUE
    /\ dom \in FaultyDocuments
    /\ \E t \in Timeouts, wt \in WarningTimes : activityTracker = TrackerInit(t, wt, TRUE)
    /\ scheduled = {}
    /\ sessionManager = SessionInit("click")
    /\ enabled = TRUE
    /\ unlockCalls = << >>
    /\ history = [restores |-> 0, failedAttempts |-> NotCounted, preBlank |-> dom, lockTimes |-> FALSE]
    /\ emitted = << >>
    /\ returned = "none"
    /\ op = "init"
    /\ app = AppInit
    /\ search = NoSearch

\* The guard up to its lock: started, pulsed, locked by timeout or by call.
NextFault ==
    \/ Advance
    \/ Start
    \/ HandleActivity
    \/ TimerFire
    \/ LockSession

SpecFault == InitFault /\ [][NextFault]_vars

\* A SessionManager in a window whose document has an element that cannot be
\* written, its guard's tracker disabled: lockSession and unlockSession calls.
InitRestoreFault ==
    /\ now = 0
    /\ hasWindow = TRUE
    /\ dom \in FaultyDocuments
    /\ activityTracker = TrackerInit(200, 100, FALSE)
    /\ scheduled = {}
    /\ sessionManager = SessionInit("click")
    /\ enabled = TRUE
    /\ unlockCalls = << >>
    /\ history = [restores |-> 0, failedAttempts |-> NotCounted, preBlank |-> dom,
                  lockTimes |-> FALSE]
    /\ emitted = << >>
    /\ returned = "none"
    /\ op = "init"
    /\ app = AppInit
    /\ search = NoSearch

SpecRestoreFault == InitRestoreFault /\ [][NextSession]_vars

\* A SessionManager in a process without a window, its guard's tracker disabled,
\* the observer noting the lock each unlockSession call was made against.
InitPeriods ==
    /\ now = 0
    /\ hasWindow = FALSE
    /\ dom = NoDocument
    /\ activityTracker = TrackerInit(200, 100, FALSE)
    /\ scheduled = {}
    /\ \E m \in UnlockMethods : sessionManager = SessionInit(m)
    /\ enabled = TRUE
    /\ unlockCalls = << >>
    /\ history = [restores |-> 0, failedAttempts |-> NotCounted, preBlank |-> dom,
                  lockTimes |-> TRUE]
    /\ emitted = << >>
    /\ returned = "none"
    /\ op = "init"
    /\ app = AppInit
    /\ search = NoSearch

SpecPeriods == InitPeriods /\ [][NextSession]_vars

\* The application: the guard in the main process (no window there), started and
\* locked as get_top_music.js does, and the renderer's BrassStabsApp reporting
\* activity, polling the lock status and searching, over the channels of preload.js.
InitRenderer ==
    /\ now = 0
    /\ hasWindow = FALSE
    /\ dom = NoDocument
    /\ activityTracker = TrackerInit(200, 100, TRUE)
    /\ scheduled = {}
    /\ sessionManager = SessionInit("click")
    /\ enabled = TRUE
    /\ unlockCalls = << >>
    /\ history = [restores |-> 0, failedAttempts |-> NotCounted, preBlank |-> dom,
                  lockTimes |-> FALSE]
    /\ emitted = << >>
    /\ returned = "none"
    /\ op = "init"
    /\ app = AppInit
    /\ search = NoSearch

NextRenderer ==
    \/ Advance
    \/ Start
    \/ HandleActivity
    \/ TimerFire
    \/ LockSession
    \/ ReportUserActivity
    \/ PollLockStatus
    \/ HandleSecureSearch
    \/ MainSearch
    \/ SearchResume

\* setInterval keeps running the status check for as long as the page lives.
SpecRenderer == InitRenderer /\ [][NextRenderer]_vars /\ WF_vars(PollLockStatus)

\* BrassStabsApp on its own: searches, and handleSessionLock / handleSessionUnlock
\* called as a status check that read the lock state would call them.
NextApp ==
    \/ HandleSecureSearch
    \/ MainSearch
    \/ SearchResume
    \/ HandleSessionLock
    \/ SessionLockResume
    \/ HandleSessionUnlock
    \/ SessionUnlockResume

SpecApp == InitRenderer /\ [][NextApp]_vars

\* ------------------------------------------------------------ properties
HasEvent(ev, src, name) ==
    \E i \in DOMAIN ev : ev[i].src = src /\ ev[i].name = name
CountEvents(ev, src, name) ==
    Cardinality({i \in DOMAIN ev : ev[i].src = src /\ ev[i].name = name})

\* What a reader of the document sees of its sensitive elements.
Shown(el) == IF el.present THEN <<el.tag, el.text, el.value>> ELSE <<"absent">>
Content(d) == [s \in {"p", "c"} |-> Shown(d[s])]

\* An element that some sensitive selector matches.
IsSensitive(el) ==
    \E i \in DOMAIN sensitiveSelectors : Matches(sensitiveSelectors[i], el)
\* Every sensitive element of the document shows the mask.
AllBlanked(d) ==
    \A s \in {"p", "c"} :
        (d[s].present /\ IsSensitive(d[s])) =>
            IF d[s].tag = "INPUT" THEN d[s].value = MaskedValue
            ELSE d[s].text = MaskedHTML.text /\ innerHTML(d, s).child = NoChild

C2_RestoreRoundTrip ==
    (op = "unlockResume" /\ returned = "true" /\ history.restores = 1) =>
        /\ Content(dom) = Content(history.preBlank)
        /\ sessionManager.sensitiveDataBackup = << >>

\* C3 Single-flight unlock: with unlock method 'os', no second unlockSession call
\* gets to the await while another is suspended there (it is rejected at once), and
\* restoreSensitiveData runs at most once in a lock period.
C3_SingleFlightUnlock ==
    sessionManager.unlockMethod = "os" =>
        /\ Len(unlockCalls) <= 1
        /\ history.restores <= 1

\* C4 Pulse always re-arms: every outstanding deadline was armed at the last accepted
\* pulse (or at startTracking), so none armed before a pulse can fire after it, and
\* the timeout deadline stands at lastActivity + timeout; every inactivity-timeout is
\* emitted no earlier than that.
C4_PulseReArms ==
    /\ \A h \in scheduled :
          /\ h.armedAt = activityTracker.lastActivity
          /\ h.kind = "timeout" =>
                FireTime(h) = activityTracker.lastActivity + activityTracker.timeout
    /\ HasEvent(emitted, "tracker", "inactivity-timeout") =>
          now >= activityTracker.lastActivity + activityTracker.timeout
\* A pulse was accepted after time had passed, and both deadlines stand re-armed.
C4_Witness ==
    /\ op = "handleActivity"
    /\ HasEvent(emitted, "tracker", "activity-detected")
    /\ activityTracker.lastActivity = now /\ now > 0
    /\ Cardinality(scheduled) = 2

\* C5 No pulse, no lock before deadline: inactivity-timeout is emitted exactly
\* timeout after the last accepted pulse or, with no pulse, after startTracking,
\* and while the tracker counts no more than timeout has passed since then.
C5_TimeoutAtDeadline ==
    /\ HasEvent(emitted, "tracker", "inactivity-timeout") =>
          now - activityTracker.lastActivity = activityTracker.timeout
    /\ (activityTracker.isTracking /\ activityTracker.timer \in scheduled) =>
          now - activityTracker.lastActivity <= activityTracker.timeout
\* The timeout fired with no pulse since startTracking at time 0.
C5_Witness ==
    /\ HasEvent(emitted, "tracker", "inactivity-timeout")
    /\ activityTracker.lastActivity = 0
    /\ now = activityTracker.timeout

ArmedAt(tr, sch, t) ==
    /\ tr.isTracking
    /\ tr.lastActivity = t
    /\ tr.timer = [kind |-> "timeout", armedAt |-> t, delay |-> tr.timeout]
    /\ tr.warningTimer =
          [kind |-> "warning", armedAt |-> t, delay |-> tr.timeout - tr.warningTime]
    /\ {tr.timer, tr.warningTimer} \subseteq sch

\* C7 Successful unlock: a step in which unlockSession succeeds on a locked session
\* (guard and tracker enabled) ends with the backup restored and empty, isLocked
\* false, session-unlocked emitted, and the tracker counting from the unlock time.
C7_SuccessfulUnlock ==
    [][(/\ op' = "unlockResume" /\ returned' = "true"
        /\ sessionManager.isLocked
        /\ enabled /\ activityTracker.enabled)
       => (/\ ~sessionManager'.isLocked
           /\ sessionManager'.sensitiveDataBackup = << >>
           /\ HasEvent(emitted', "guard", "session-unlocked")
           /\ ArmedAt(activityTracker', scheduled', now'))]_vars

\* C8 Failed unlock leaves state unchanged: a step in which unlockSession fails
\* changes neither the session manager (isLocked, lockTime, backup), the document,
\* the tracker nor its timers; it emits unlock-failed once and returns false.
C8_FailedUnlockChangesNothing ==
    [][(op' = "unlockResume" /\ returned' = "false")
       => (/\ sessionManager' = sessionManager
           /\ dom' = dom
           /\ activityTracker' = activityTracker
           /\ scheduled' = scheduled
           /\ CountEvents(emitted', "session", "unlock-failed") = 1
           /\ CountEvents(emitted', "guard", "unlock-failed") = 1
           /\ Len(emitted') = 2)]_vars
\* An unlock has failed on a locked session whose tracker is stopped.
C8_Witness ==
    /\ op = "unlockResume" /\ returned = "false"
    /\ sessionManager.isLocked
    /\ ~activityTracker.isTracking
    /\ HasEvent(emitted, "guard", "unlock-failed")

\* C9 Cooldown enforcement: an unlockSession call that arrived inside a cooldown
\* (attemptsBeforeCooldown failures in a row, cooldownDuration not yet over) does not
\* unlock the session, whatever password it presents.
C9_CooldownEnforced ==
    [][\A i \in DOMAIN unlockCalls :
          (/\ unlockCalls[i].cooldown
           /\ op' = "unlockResume"
           /\ unlockCalls' = Remove(unlockCalls, i)
           /\ sessionManager.isLocked)
          => sessionManager'.isLocked]_vars

\* C10 forceLock is idempotent: lockSession on a locked session changes neither the
\* session manager (isLocked, lockTime, backup), the document nor the tracker, and
\* emits nothing.
C10_LockWhileLockedIsNoOp ==
    [][(op' = "lockSession" /\ sessionManager.isLocked)
       => (/\ sessionManager' = sessionManager
           /\ dom' = dom
           /\ activityTracker' = activityTracker
           /\ scheduled' = scheduled
           /\ emitted' = << >>)]_vars
\* lockSession was called on a session locked earlier, its backup in place.
C10_Witness ==
    /\ op = "lockSession" /\ emitted = << >>
    /\ sessionManager.isLocked /\ sessionManager.lockTime < now
    /\ sessionManager.sensitiveDataBackup # << >>

\* C11 Shared-secret unlock: with unlock method 'password', an unlockSession call on
\* a locked session returns true and unlocks exactly when it presented a password
\* equal to the stored one; any other call returns false and leaves it locked.
C11_PasswordUnlockIff ==
    [][\A i \in DOMAIN unlockCalls :
          (/\ op' = "unlockResume"
           /\ unlockCalls' = Remove(unlockCalls, i)
           /\ sessionManager.unlockMethod = "password"
           /\ sessionManager.isLocked)
          => /\ (returned' = "true") <=> unlockCalls[i].correct
             /\ sessionManager'.isLocked <=> ~unlockCalls[i].correct]_vars
\* With method 'password' a call has unlocked the session while another, which
\* presented no such password, is still suspended.
C11_Witness ==
    /\ op = "unlockResume" /\ returned = "true"
    /\ sessionManager.unlockMethod = "password"
    /\ ~sessionManager.isLocked
    /\ history.restores = 1
    /\ \E i \in DOMAIN unlockCalls : ~unlockCalls[i].correct
\* C12 Reconfigure while Locked is rejected: a configure call on a locked session
\* fails with InvalidState and changes neither the tracker's timeout and warningTime,
\* the unlock method nor the enabled flag.
C12_ConfigureWhileLockedRejected ==
    [][(op' = "configure" /\ sessionManager.isLocked)
       => (/\ returned' = "InvalidState"
           /\ activityTracker'.timeout = activityTracker.timeout
           /\ activityTracker'.warningTime = activityTracker.warningTime
           /\ sessionManager'.unlockMethod = sessionManager.unlockMethod
           /\ enabled' = enabled)]_vars

\* C13 Reconfigure restarts the timer atomically: a configure call that changes
\* timeout or warningTime while the session is unlocked and the tracker tracking
\* leaves exactly two deadlines outstanding, both armed at the time of the call with
\* the new durations.
C13_ConfigureReArms ==
    [][(/\ op' = "configure"
        /\ ~sessionManager.isLocked
        /\ activityTracker.isTracking
        /\ \/ activityTracker'.timeout # activityTracker.timeout
           \/ activityTracker'.warningTime # activityTracker.warningTime)
       => scheduled' =
              {[kind |-> "timeout", armedAt |-> now, delay |-> activityTracker'.timeout],
               [kind |-> "warning", armedAt |-> now,
                delay |-> activityTracker'.timeout - activityTracker'.warningTime]}]_vars
\* Durations the timer must not be started with: warningTime not below timeout, or
\* one of them zero or negative.
InvalidConfiguration(tr) ==
    tr.warningTime >= tr.timeout \/ tr.timeout <= 0 \/ tr.warningTime <= 0

\* C14 Invalid configuration is rejected: a start call that would start the tracker
\* (guard and tracker enabled, not tracking) with invalid durations, its own or those
\* of its options, fails with InvalidConfiguration, arms no deadline and leaves the
\* tracker stopped.
C14_InvalidConfigurationRejected ==
    [][(/\ op' = "start"
        /\ enabled /\ activityTracker.enabled /\ ~activityTracker.isTracking
        /\ InvalidConfiguration(activityTracker'))
       => (/\ returned' = "InvalidConfiguration"
           /\ scheduled' = {}
           /\ ~activityTracker'.isTracking)]_vars
\* C15 Warning carries the time remaining: inactivity-warning is emitted when
\* timeout - warningTime has passed since the last pulse, and its timeRemaining is
\* the time left until the timeout deadline, which is warningTime.
C15_WarningTimeRemaining ==
    \A i \in DOMAIN emitted :
        emitted[i].name = "inactivity-warning" =>
            /\ now = activityTracker.lastActivity + activityTracker.timeout
                          - activityTracker.warningTime
            /\ emitted[i].data = activityTracker.lastActivity + activityTracker.timeout - now
            /\ emitted[i].data = activityTracker.warningTime

\* The tracker has issued its warning and the timeout is still to come.
WarningIssued ==
    /\ activityTracker.isTracking
    /\ activityTracker.warningTimer # NoTimer
    /\ activityTracker.warningTimer \notin scheduled
    /\ activityTracker.timer \in scheduled

\* C16 Warning is retracted by activity: a step in which a pulse is accepted after
\* the warning was issued and before the timeout re-arms both deadlines from the
\* pulse and emits, besides activity-detected, a signal that the warning is cleared.
C16_WarningRetracted ==
    [][(/\ op' = "handleActivity"
        /\ HasEvent(emitted', "tracker", "activity-detected")
        /\ WarningIssued)
       => (/\ ArmedAt(activityTracker', scheduled', now)
           /\ \E i \in DOMAIN emitted' : emitted'[i].name # "activity-detected")]_vars

\* C17 Debounce: a handleActivity call less than DebounceMs after the last accepted
\* pulse (or startTracking) changes neither the tracker, lastActivity included, nor
\* the deadlines and emits nothing; every activity-detected is emitted at least
\* DebounceMs after the pulse before it.
C17_Debounce ==
    [][(op' = "handleActivity" /\ activityTracker.isTracking)
       => IF now - activityTracker.lastActivity < DebounceMs
          THEN /\ activityTracker' = activityTracker
               /\ scheduled' = scheduled
               /\ emitted' = << >>
          ELSE HasEvent(emitted', "tracker", "activity-detected")]_vars
\* A call came 50 ms after the last pulse or startTracking, a deadline outstanding,
\* and was dropped.
C17_Witness ==
    /\ op = "handleActivity" /\ emitted = << >>
    /\ activityTracker.isTracking
    /\ now - activityTracker.lastActivity = 50
    /\ activityTracker.lastActivity > 0
    /\ activityTracker.timer \in scheduled
\* The timeout callback of the last resetTimer has run and the tracker has been
\* neither stopped nor re-armed since.
Expired ==
    /\ activityTracker.timer # NoTimer
    /\ activityTracker.timer \notin scheduled

\* C18 Expiry is terminal: once inactivity-timeout has been emitted, a handleActivity
\* call arms no deadline (only start, an unlock's startTracking or a reconfigure may).
C18_ExpiryTerminal ==
    [][(Expired /\ op' = "handleActivity") => scheduled' \subseteq scheduled]_vars

\* C19 stopTracking cancels and is idempotent: a tracker that is not tracking has no
\* deadline outstanding, so none can fire before the next startTracking; after stop
\* the tracker is not tracking; inactivity-warning and inactivity-timeout are only
\* emitted by a tracking tracker; and stop on a stopped tracker changes neither the
\* tracker nor the deadlines and emits no tracking-stopped.
C19_StopCancels ==
    [][/\ ~activityTracker'.isTracking => scheduled' = {}
       /\ op' = "stop" => ~activityTracker'.isTracking
       /\ (\/ HasEvent(emitted', "tracker", "inactivity-warning")
           \/ HasEvent(emitted', "tracker", "inactivity-timeout"))
          => activityTracker.isTracking
       /\ (op' = "stop" /\ ~activityTracker.isTracking)
          => /\ activityTracker' = activityTracker
             /\ scheduled' = scheduled
             /\ ~HasEvent(emitted', "tracker", "tracking-stopped")]_vars
\* stop was called on a tracker that had been started and was stopped already.
C19_Witness ==
    /\ op = "stop"
    /\ ~HasEvent(emitted, "tracker", "tracking-stopped")
    /\ ~activityTracker.isTracking
    /\ activityTracker.lastActivity > 0
    /\ ~sessionManager.isLocked /\ sessionManager.lockTime = NoTime
    /\ scheduled = {}
\* C20 Fail-locked blanking: a step in which blanking an element throws during
\* lockSession (called directly or by the timeout) ends with the session locked, the
\* elements blanked before the failure still blanked, session-locked emitted by the
\* session manager and the guard, and the tracker stopped.
C20_FailLockedBlanking ==
    [][(/\ op' \in {"lockSession", "timer"}
        /\ returned' = "threw"
        /\ ~sessionManager.isLocked)
       => (/\ sessionManager'.isLocked
           /\ dom'.p.blanked /\ dom'.p.text = MaskedHTML.text
           /\ HasEvent(emitted', "session", "session-locked")
           /\ HasEvent(emitted', "guard", "session-locked")
           /\ ~activityTracker'.isTracking
           /\ scheduled' = {})]_vars
\* C23 Single live deadline per slot: at most one warning timer and one timeout timer
\* are outstanding, they are the ones the tracker holds in warningTimer and timer,
\* and the timers a tracking tracker holds were armed at the last accepted pulse (or
\* startTracking), so no callback armed before a pulse is left to fire after it.
C23_SingleLiveDeadline ==
    /\ Cardinality({h \in scheduled : h.kind = "warning"}) <= 1
    /\ Cardinality({h \in scheduled : h.kind = "timeout"}) <= 1
    /\ scheduled \subseteq {activityTracker.timer, activityTracker.warningTimer}
    /\ activityTracker.isTracking =>
          /\ activityTracker.timer.kind = "timeout"
          /\ activityTracker.warningTimer.kind = "warning"
          /\ activityTracker.timer.armedAt = activityTracker.lastActivity
          /\ activityTracker.warningTimer.armedAt = activityTracker.lastActivity
\* A pulse was accepted after the warning of the period before it had fired, and
\* one deadline of each kind is outstanding.
C23_Witness ==
    /\ op = "handleActivity"
    /\ HasEvent(emitted, "tracker", "activity-detected")
    /\ now >= activityTracker.timeout - activityTracker.warningTime + DebounceMs
    /\ scheduled = {activityTracker.timer, activityTracker.warningTimer}
    /\ Cardinality(scheduled) = 2

\* C30 Warning precedes timeout: when inactivity-timeout is emitted, the warning
\* timer armed with it at the last pulse has run (it is neither outstanding nor
\* cleared: only resetTimer and stopTracking clear, and they replace or null it); and
\* when inactivity-warning is emitted, the timeout armed with it is still to come.
C30_WarningPrecedesTimeout ==
    [][/\ HasEvent(emitted', "tracker", "inactivity-timeout")
          => /\ activityTracker.warningTimer # NoTimer
             /\ activityTracker.warningTimer \notin scheduled
             /\ activityTracker.warningTimer.armedAt = activityTracker.lastActivity
             /\ activityTracker.timer.armedAt = activityTracker.lastActivity
             /\ ~HasEvent(emitted', "tracker", "inactivity-warning")
       /\ HasEvent(emitted', "tracker", "inactivity-warning")
          => /\ activityTracker.timer \in scheduled'
             /\ activityTracker.timer.armedAt = activityTracker.warningTimer.armedAt
             /\ activityTracker.warningTimer \in scheduled
             /\ activityTracker.warningTimer \notin scheduled'
             /\ CountEvents(emitted', "tracker", "inactivity-warning") = 1]_vars
\* The timeout fired in a period that began with a pulse, 100 ms after its warning.
C30_Witness ==
    /\ op = "timer"
    /\ HasEvent(emitted, "tracker", "inactivity-timeout")
    /\ activityTracker.lastActivity > 0
    /\ now = activityTracker.lastActivity + activityTracker.timeout

\* C28 No countdown while locked: while isLocked is true the tracker is not tracking
\* and no warning or timeout deadline is outstanding.
C28_NoCountdownWhileLocked ==
    sessionManager.isLocked =>
        /\ ~activityTracker.isTracking
        /\ scheduled = {}

\* C27 Lock and unlock events alternate: the guard emits session-locked only on a
\* step from unlocked to locked and session-unlocked only on a step from locked to
\* unlocked, once each, and every such step emits its event.
C27_EventsAlternate ==
    [][/\ HasEvent(emitted', "guard", "session-locked")
          => /\ ~sessionManager.isLocked /\ sessionManager'.isLocked
             /\ CountEvents(emitted', "guard", "session-locked") = 1
       /\ HasEvent(emitted', "guard", "session-unlocked")
          => /\ sessionManager.isLocked /\ ~sessionManager'.isLocked
             /\ CountEvents(emitted', "guard", "session-unlocked") = 1
       /\ (~sessionManager.isLocked /\ sessionManager'.isLocked)
          => HasEvent(emitted', "guard", "session-locked")
       /\ (sessionManager.isLocked /\ ~sessionManager'.isLocked)
          => HasEvent(emitted', "guard", "session-unlocked")]_vars

\* C25 AFKGuard.stop really stops: stop on an unlocked session leaves the tracker
\* stopped with no deadline outstanding; after stop on a locked session, when the
\* unlockSession call it made (the only one suspended) has resumed, the tracker is
\* still stopped and no deadline is outstanding.
C25_StopStops ==
    [][/\ (op' = "stop" /\ ~sessionManager.isLocked)
          => (~activityTracker'.isTracking /\ scheduled' = {})
       /\ (/\ op = "stop" /\ sessionManager.isLocked /\ Len(unlockCalls) = 1
           /\ op' = "unlockResume")
          => (~activityTracker'.isTracking /\ scheduled' = {})]_vars
\* C26 No stale unlock: a step of a resumed unlockSession call that takes the session
\* from locked to unlocked resumes a call that validated and was made against the
\* lock in force (the lock whose lockTime is the session's), never a call left over
\* from an earlier lock.
C26_NoStaleUnlock ==
    [][(op' = "unlockResume" /\ sessionManager.isLocked /\ ~sessionManager'.isLocked)
       => \E i \in 1..Len(unlockCalls) :
            /\ unlockCalls' = Remove(unlockCalls, i)
            /\ unlockCalls[i].isValid
            /\ unlockCalls[i].lockTime = sessionManager.lockTime]_vars
\* C24 State flips follow the vault operation: a step that takes the session from
\* unlocked to locked has blanked the document (wholly, or partly where an element
\* threw), and a step that takes it from locked to unlocked has completed
\* restoreSensitiveData: nothing threw and the backup is cleared.
C24_FlipsFollowVault ==
    [][/\ (~sessionManager.isLocked /\ sessionManager'.isLocked)
          => (returned' = "threw" \/ AllBlanked(dom'))
       /\ (sessionManager.isLocked /\ ~sessionManager'.isLocked)
          => (returned' # "threw" /\ sessionManager'.sensitiveDataBackup = << >>)]_vars
\* C21 No search while locked: while the session manager is locked, the renderer
\* issues no search request (no performSecureSearch reaches its API call) and the
\* main process runs no search handler.
C21_NoSearchWhileLocked ==
    [][sessionManager.isLocked
       => /\ ~(search.stage # "invoked" /\ search'.stage = "invoked")
          /\ op' \notin {searchApi(t) : t \in SearchTypes}]_vars

\* C22 Main/renderer session state synchronised over IPC: an activity report the
\* renderer sends while the tracker is tracking, outside the debounce window, sets
\* the tracker's lastActivity as handleActivity does; and once the session manager's
\* isLocked stops changing, the renderer's isSessionLocked comes to equal it.
C22_StateSynchronised ==
    /\ [][(/\ op' = "reportUserActivity"
           /\ ~app.isSessionLocked
           /\ activityTracker.isTracking
           /\ now - activityTracker.lastActivity >= DebounceMs)
          => activityTracker'.lastActivity = now]_vars
    /\ (<>[]sessionManager.isLocked => <>[]app.isSessionLocked)
    /\ (<>[](~sessionManager.isLocked) => <>[](~app.isSessionLocked))

\* C29 Locked renderer shows and caches nothing new: a performSecureSearch that
\* resumes while isSessionLocked is true adds nothing to searchCache and writes no
\* results container, and once handleSessionLock has completed the searchCache of a
\* locked renderer is empty.
C29_LockedRendererCachesNothing ==
    [][/\ (op' = "performSecureSearch" /\ app.isSessionLocked)
          => (app'.searchCache = app.searchCache /\ app'.results = app.results)
       /\ (app'.isSessionLocked /\ ~app'.locking) => app'.searchCache = {}]_vars
====
